---- MODULE Spec2Model ----
(***************************************************************************)
(* Model of collector_scheduled.py: ScheduledTrafficCollector.             *)
(*                                                                         *)
(* One invocation of run() is a sequence of steps cut at the points where  *)
(* the process talks to the outside (one HTTP request per segment, each    *)
(* SQL statement, each commit).  The database is the committed state `db`  *)
(* plus the statements of the open transaction `txn`; psycopg2 keeps       *)
(* statements in the open transaction until conn.commit().                 *)
(* Datetimes are integers counting seconds.                                *)
(***************************************************************************)
EXTENDS Integers, Sequences, FiniteSets, TLC

\* ---- bounds of the model
MaxSegments == 2
MaxRuns == 2
MaxTicks == 1

\* ---- values of the program
None == -1
SecondsPerHour == 3600
TickSeconds == SecondsPerHour \div 2
MaxClock == MaxTicks * TickSeconds

\* interval_hours is a NUMERIC column; a value is the rational num/den hours
Hours(n, d) == [num |-> n, den |-> d]
Intervals == {Hours(1, 2), Hours(1, 1)}

VARIABLES
    db,               \* committed rows: config, road_segments, traffic_observations, query_log
    txn,              \* statements executed on self.conn and not yet committed
    clock,            \* datetime.utcnow(), seconds
    pc,               \* position of the process
    run,              \* number of the invocation (0 before the first)
    segments,         \* collect_traffic_data: segments (list of segment_id)
    timestamp,        \* collect_traffic_data: timestamp
    idx,              \* collect_traffic_data: number of loop iterations finished
    observations,     \* collect_traffic_data: observations
    segment_updates,  \* collect_traffic_data: segment_updates
    successful,       \* collect_traffic_data: successful
    failed,           \* collect_traffic_data: failed
    exc,              \* the exception run() raised, "" if none
    hist,             \* history of the invocation (what it saw and did), read by the properties only
    call              \* a single call of a pure function (specifications SpecGate, SpecParse)

vars == <<db, txn, clock, pc, run, segments, timestamp, idx, observations,
          segment_updates, successful, failed, exc, hist, call>>

runVars == <<db, txn, clock, pc, run, segments, timestamp, idx, observations,
             segment_updates, successful, failed, exc, hist>>

\* ------------------------------------------------------------------------
\* should_query_now

total_seconds(now, then) == now - then

\* Mutant: the boundary is excluded (> for >=).
should_query_now_strict(last_queried_at, interval_hours, now) ==
    IF last_queried_at = None
    THEN TRUE
    ELSE total_seconds(now, last_queried_at) * interval_hours.den
             > interval_hours.num * SecondsPerHour

\* time_since_last / 3600 >= interval_hours, both sides multiplied by 3600 * den
should_query_now(last_queried_at, interval_hours, now) ==
    IF last_queried_at = None
    THEN TRUE
    ELSE total_seconds(now, last_queried_at) * interval_hours.den
             >= interval_hours.num * SecondsPerHour

\* ------------------------------------------------------------------------
\* _query_distance_matrix

\* The function's return value None.
NoResult == [none |-> TRUE]

\* Python truth value of element.get(k, {}).get('value'): None and 0 are false
Truthy(v) == v # None /\ v # 0

Statuses == {"OK", "OVER_QUERY_LIMIT", "REQUEST_DENIED"}
ElementStatuses == {"OK", "OVER_QUERY_LIMIT", "NOT_FOUND"}
FieldValues == {None, 0, 1, 2}

\* What requests.get(...) and response.json() give: a body, or an exception
\* (timeout, network error, a body that is not the expected JSON).
Body(s, e, du, dit, di) ==
    [transport |-> "ok", status |-> s, element_status |-> e,
     duration |-> du, duration_in_traffic |-> dit, distance |-> di]
BrokenResponse(t) == [Body("", "", None, None, None) EXCEPT !.transport = t]
Transports == {"timeout", "network_error", "malformed"}

AllResponses ==
    {Body(s, e, du, dit, di) : s \in Statuses, e \in ElementStatuses,
                               du \in FieldValues, dit \in FieldValues, di \in FieldValues}
        \cup {BrokenResponse(t) : t \in Transports}

\* The dict the function returns.
Result(distance, duration, current_duration) ==
    [distance |-> distance, freeflow_duration |-> duration,
     current_duration |-> current_duration]

\* Mutant: the traffic-aware duration is ignored.
query_distance_matrix_freeflow(resp) ==
    IF /\ resp.transport = "ok"
       /\ resp.status = "OK"
       /\ resp.element_status = "OK"
       /\ Truthy(resp.duration)
       /\ Truthy(resp.distance)
    THEN Result(resp.distance, resp.duration, resp.duration)
    ELSE NoResult

query_distance_matrix(resp) ==
    IF resp.transport # "ok"
    THEN NoResult                                  \* except Exception: ... return None
    ELSE IF resp.status = "OVER_QUERY_LIMIT"
    THEN NoResult
    ELSE IF resp.status = "OK"
    THEN IF resp.element_status = "OVER_QUERY_LIMIT"
         THEN NoResult
         ELSE IF resp.element_status = "OK"
         THEN IF Truthy(resp.duration) /\ Truthy(resp.distance)
              THEN Result(resp.distance, resp.duration,
                          IF Truthy(resp.duration_in_traffic)
                          THEN resp.duration_in_traffic
                          ELSE resp.duration)
              ELSE NoResult
         ELSE NoResult
    ELSE NoResult

\* ------------------------------------------------------------------------
\* collect_traffic_data: the body of the loop over the segments

Accumulators(obs, upd, s, f) ==
    [observations |-> obs, segment_updates |-> upd, successful |-> s, failed |-> f]

ObservationRow(seg_id, ts, td, r) ==
    [segment_id |-> seg_id, observed_at |-> ts,
     freeflow_duration_seconds |-> td.freeflow_duration,
     current_duration_seconds |-> td.current_duration,
     run |-> r]

\* Mutant: the except branch does not count the segment.
loop_body_except_uncounted(acc, seg_id, ts, r, traffic_data, raised) ==
    IF raised
    THEN acc
    ELSE IF traffic_data # NoResult
    THEN [acc EXCEPT !.observations = Append(@, ObservationRow(seg_id, ts, traffic_data, r)),
                     !.segment_updates = Append(@, <<traffic_data.distance, seg_id>>),
                     !.successful = @ + 1]
    ELSE [acc EXCEPT !.failed = @ + 1]

\* Mutant: a failed segment still gets a distance update (of None).
loop_body_update_always(acc, seg_id, ts, r, traffic_data, raised) ==
    IF raised
    THEN [acc EXCEPT !.failed = @ + 1]
    ELSE IF traffic_data # NoResult
    THEN [acc EXCEPT !.observations = Append(@, ObservationRow(seg_id, ts, traffic_data, r)),
                     !.segment_updates = Append(@, <<traffic_data.distance, seg_id>>),
                     !.successful = @ + 1]
    ELSE [acc EXCEPT !.segment_updates = Append(@, <<None, seg_id>>),
                     !.failed = @ + 1]

\* raised: an exception reached the loop's except branch; traffic_data: what
\* _query_distance_matrix returned otherwise.  r is the invocation, kept in
\* the row for the properties.
loop_body(acc, seg_id, ts, r, traffic_data, raised) ==
    IF raised
    THEN [acc EXCEPT !.failed = @ + 1]
    ELSE IF traffic_data # NoResult
    THEN [acc EXCEPT !.observations = Append(@, ObservationRow(seg_id, ts, traffic_data, r)),
                     !.segment_updates = Append(@, <<traffic_data.distance, seg_id>>),
                     !.successful = @ + 1]
    ELSE [acc EXCEPT !.failed = @ + 1]

\* Mutant: the loop stops at the first segment without a result.
loop_advance_stop_on_failure(i, n, traffic_data) ==
    IF traffic_data = NoResult THEN n ELSE i + 1

\* for idx, ... in enumerate(segments): the next iteration, whatever happened
loop_advance(i, n, traffic_data) == i + 1

\* ------------------------------------------------------------------------
\* The database

EmptyTxn == [updates |-> <<>>, observations |-> <<>>, log |-> <<>>, config |-> <<>>]

\* run (the invocation) is kept in the row for the properties;
\* api_response_time_ms is left out.
LogRow(n, s, f, r) ==
    [elements_queried |-> n, successful_queries |-> s, failed_queries |-> f, run |-> r]

\* The last pending UPDATE road_segments that names segment s, 0 if none.
LastUpdate(updates, s) ==
    LET hits == {i \in DOMAIN updates : updates[i][2] = s}
    IN  IF hits = {} THEN 0 ELSE CHOOSE i \in hits : \A j \in hits : j <= i

CommittedSegments(d, t, r) ==
    [s \in DOMAIN d.road_segments |->
        IF LastUpdate(t.updates, s) = 0
        THEN d.road_segments[s]
        ELSE [segment_distance_api |-> t.updates[LastUpdate(t.updates, s)][1],
              updated_by |-> r]]

CommittedConfig(d, t) ==
    IF t.config = <<>>
    THEN d.config
    ELSE [d.config EXCEPT !.last_queried_at = t.config[1].last_queried_at,
                          !.updated_at = t.config[1].updated_at,
                          !.queried_by = t.config[1].run]

\* Mutant: the query_log row is not part of the committed transaction.
commit_without_log(d, t, r) ==
    [config |-> CommittedConfig(d, t),
     road_segments |-> CommittedSegments(d, t, r),
     traffic_observations |-> d.traffic_observations \o t.observations,
     query_log |-> d.query_log]

\* self.conn.commit(): every pending statement takes effect at once
commit(d, t, r) ==
    [config |-> CommittedConfig(d, t),
     road_segments |-> CommittedSegments(d, t, r),
     traffic_observations |-> d.traffic_observations \o t.observations,
     query_log |-> d.query_log \o t.log]

\* Mutant: the connection is in autocommit mode.
after_execute_autocommit(d, t, r) == commit(d, t, r)

\* cursor.execute / executemany / execute_values: the committed rows do not change
after_execute(d, t, r) == d

\* Mutant: the inverted test (skip when due).
run_head_inverted(d, now) ==
    IF ~d.config.is_active
    THEN "no_active"
    ELSE IF should_query_now(d.config.last_queried_at, d.config.interval_hours, now)
    THEN "skipped"
    ELSE "due"

\* run(): get_active_region and the interval gate
run_head(d, now) ==
    IF ~d.config.is_active
    THEN "no_active"
    ELSE IF ~should_query_now(d.config.last_queried_at, d.config.interval_hours, now)
    THEN "skipped"
    ELSE "due"

\* Mutant: last_queried_at is set to the observation timestamp.
config_update_stale(now, ts, r) ==
    [last_queried_at |-> ts, updated_at |-> ts, run |-> r]

\* UPDATE collection_config SET last_queried_at = utcnow(), updated_at = utcnow()
config_update(now, ts, r) ==
    [last_queried_at |-> now, updated_at |-> now, run |-> r]

\* ------------------------------------------------------------------------
\* The process.  After its end (return, raise, kill) the locals keep the
\* values it ended with until the next invocation starts.

\* The responses the API gives in a run: one of each way through the parser.
RunResponses ==
    {Body("OK", "OK", 1, 1, 1),
     Body("OK", "OK", 1, None, 1),
     Body("OK", "OK", 0, 0, 0),
     Body("OVER_QUERY_LIMIT", "", None, None, None),
     Body("OK", "OVER_QUERY_LIMIT", None, None, None),
     Body("REQUEST_DENIED", "", None, None, None),
     BrokenResponse("timeout")}

NoCall == [fn |-> "none"]

Stopped == {"idle", "returned", "raised", "killed"}
DbCalls == {"upd", "ins", "log", "commit1", "cfg", "commit2"}
Running == {"loop", "report"} \cup DbCalls

\* What the properties read of an invocation: the clock and the committed
\* rows it started from, the way run() took, per segment the number of
\* requests sent and how the iteration ended, and the clock at the UPDATE of
\* collection_config.
FreshHistory(d, now, path) ==
    [start_now |-> now, db_at_start |-> d, path |-> path,
     api_calls |-> [s \in DOMAIN d.road_segments |-> 0],
     outcome |-> [s \in DOMAIN d.road_segments |-> "pending"],
     collected |-> FALSE, update_now |-> None]

InitRunWith(active, interval, last, n) ==
    /\ db = [config |-> [is_active |-> active, interval_hours |-> interval,
                         last_queried_at |-> last, updated_at |-> 0, queried_by |-> 0],
             road_segments |-> [s \in 1..n |-> [segment_distance_api |-> None,
                                                updated_by |-> 0]],
             traffic_observations |-> <<>>,
             query_log |-> <<>>]
    /\ txn = EmptyTxn
    /\ clock = 0
    /\ pc = "idle"
    /\ run = 0
    /\ segments = <<>>
    /\ timestamp = None
    /\ idx = 0
    /\ observations = <<>>
    /\ segment_updates = <<>>
    /\ successful = 0
    /\ failed = 0
    /\ exc = ""
    /\ hist = FreshHistory(db, 0, "none")

\* The tables as provisioned: the one config row (active or not, never
\* queried or queried at time 0), the region's segments, no observation, no log
InitRun ==
    \E active \in BOOLEAN, interval \in Intervals, last \in {None, 0}, n \in 0..MaxSegments :
        InitRunWith(active, interval, last, n)

Init == InitRun /\ call = NoCall

\* python collector_scheduled.py: a new process, a new connection
Launch(path) ==
    /\ pc \in Stopped
    /\ run < MaxRuns
    /\ run_head(db, clock) = path
    /\ run' = run + 1
    /\ txn' = EmptyTxn
    /\ exc' = ""
    /\ hist' = FreshHistory(db, clock, path)
    /\ UNCHANGED <<db, clock, call>>

NoLocals ==
    /\ segments' = <<>>
    /\ timestamp' = None
    /\ idx' = 0
    /\ observations' = <<>>
    /\ segment_updates' = <<>>
    /\ successful' = 0
    /\ failed' = 0

\* run(): "No active region configured." return
RunNoActive ==
    /\ Launch("no_active")
    /\ NoLocals
    /\ pc' = "returned"

\* run(): "SKIPPING: Too soon since last query" return
RunSkipped ==
    /\ Launch("skipped")
    /\ NoLocals
    /\ pc' = "returned"

\* run() enters collect_traffic_data: the segments are fetched, the
\* timestamp is taken, the accumulators are empty
RunDue ==
    /\ Launch("due")
    /\ segments' = [i \in 1..Cardinality(DOMAIN db.road_segments) |-> i]
    /\ timestamp' = clock
    /\ idx' = 0
    /\ observations' = <<>>
    /\ segment_updates' = <<>>
    /\ successful' = 0
    /\ failed' = 0
    /\ pc' = IF DOMAIN db.road_segments = {} THEN "upd" ELSE "loop"

SetAccumulators(acc) ==
    /\ observations' = acc.observations
    /\ segment_updates' = acc.segment_updates
    /\ successful' = acc.successful
    /\ failed' = acc.failed

\* One iteration: the request is made and _query_distance_matrix returns
LoopQuery ==
    /\ pc = "loop"
    /\ idx < Len(segments)
    /\ \E resp \in RunResponses :
          LET seg_id == segments[idx + 1]
              traffic_data == query_distance_matrix(resp)
              next == loop_advance(idx, Len(segments), traffic_data)
          IN  /\ SetAccumulators(
                    loop_body(Accumulators(observations, segment_updates, successful, failed),
                              seg_id, timestamp, run, traffic_data, FALSE))
              /\ hist' = [hist EXCEPT !.api_calls[seg_id] = @ + 1,
                                      !.outcome[seg_id] = IF traffic_data # NoResult
                                                          THEN "result" ELSE "no_result"]
              /\ idx' = next
              /\ pc' = IF next >= Len(segments) THEN "upd" ELSE "loop"
    /\ UNCHANGED <<db, txn, clock, run, segments, timestamp, exc, call>>

\* One iteration in which a statement of the loop body raises before the
\* request is sent (the print of the progress line to a closed stdout): the
\* loop's except branch runs.  A print that raises after a request without
\* result leaves the same state as LoopQuery does.
LoopBodyError ==
    /\ pc = "loop"
    /\ idx < Len(segments)
    /\ LET seg_id == segments[idx + 1]
           next == idx + 1
       IN  /\ SetAccumulators(
                 loop_body(Accumulators(observations, segment_updates, successful, failed),
                           seg_id, timestamp, run, NoResult, TRUE))
           /\ hist' = [hist EXCEPT !.outcome[seg_id] = "raised"]
           /\ idx' = next
           /\ pc' = IF next >= Len(segments) THEN "upd" ELSE "loop"
    /\ UNCHANGED <<db, txn, clock, run, segments, timestamp, exc, call>>

Locals == <<segments, timestamp, idx, observations, segment_updates, successful, failed>>

\* if segment_updates: cursor.executemany(UPDATE road_segments ...)
WriteUpdates ==
    /\ pc = "upd"
    /\ txn' = IF segment_updates # <<>>
              THEN [txn EXCEPT !.updates = segment_updates] ELSE txn
    /\ db' = after_execute(db, txn', run)
    /\ pc' = "ins"
    /\ UNCHANGED <<clock, run, Locals, exc, hist, call>>

\* if observations: execute_values(INSERT INTO traffic_observations ...)
WriteObservations ==
    /\ pc = "ins"
    /\ txn' = IF observations # <<>>
              THEN [txn EXCEPT !.observations = observations] ELSE txn
    /\ db' = after_execute(db, txn', run)
    /\ pc' = "log"
    /\ UNCHANGED <<clock, run, Locals, exc, hist, call>>

\* cursor.execute(INSERT INTO query_log ...)
WriteLog ==
    /\ pc = "log"
    /\ txn' = [txn EXCEPT !.log = <<LogRow(Len(segments), successful, failed, run)>>]
    /\ db' = after_execute(db, txn', run)
    /\ pc' = "commit1"
    /\ UNCHANGED <<clock, run, Locals, exc, hist, call>>

\* collect_traffic_data: self.conn.commit()
CommitCollection ==
    /\ pc = "commit1"
    /\ db' = commit(db, txn, run)
    /\ txn' = EmptyTxn
    /\ hist' = [hist EXCEPT !.collected = TRUE]
    /\ pc' = "cfg"
    /\ UNCHANGED <<clock, run, Locals, exc, call>>

\* run(): cursor.execute(UPDATE collection_config ...)
UpdateConfig ==
    /\ pc = "cfg"
    /\ txn' = [txn EXCEPT !.config = <<config_update(clock, timestamp, run)>>]
    /\ db' = after_execute(db, txn', run)
    /\ hist' = [hist EXCEPT !.update_now = clock]
    /\ pc' = "commit2"
    /\ UNCHANGED <<clock, run, Locals, exc, call>>

\* run(): self.conn.commit()
CommitConfig ==
    /\ pc = "commit2"
    /\ db' = commit(db, txn, run)
    /\ txn' = EmptyTxn
    /\ pc' = "report"
    /\ UNCHANGED <<clock, run, Locals, exc, hist, call>>

\* run(): the closing prints; successful/(successful+failed) divides by zero
\* when no segment was attempted, and the except clause re-raises
Report ==
    /\ pc = "report"
    /\ IF successful + failed = 0
       THEN pc' = "raised" /\ exc' = "ZeroDivisionError"
       ELSE pc' = "returned" /\ exc' = exc
    /\ UNCHANGED <<db, txn, clock, run, Locals, hist, call>>

\* The statement or commit at pc raises a database error: it propagates out
\* of collect_traffic_data and run() (except: print, raise), the process
\* ends and the server rolls the open transaction back
DbError ==
    /\ pc \in DbCalls
    /\ pc = "upd" => segment_updates # <<>>
    /\ pc = "ins" => observations # <<>>
    /\ exc' = pc
    /\ pc' = "raised"
    /\ txn' = EmptyTxn
    /\ UNCHANGED <<db, clock, run, Locals, hist, call>>

\* The process is killed; the server rolls the open transaction back
Kill ==
    /\ pc \in Running
    /\ pc' = "killed"
    /\ txn' = EmptyTxn
    /\ UNCHANGED <<db, clock, run, Locals, exc, hist, call>>

\* Time passes
Tick ==
    /\ clock < MaxClock
    /\ clock' = clock + TickSeconds
    /\ UNCHANGED <<db, txn, pc, run, Locals, exc, hist, call>>

Next ==
    \/ RunNoActive
    \/ RunSkipped
    \/ RunDue
    \/ LoopQuery
    \/ LoopBodyError
    \/ WriteUpdates
    \/ WriteObservations
    \/ WriteLog
    \/ CommitCollection
    \/ UpdateConfig
    \/ CommitConfig
    \/ Report
    \/ DbError
    \/ Kill
    \/ Tick

Spec == Init /\ [][Next]_vars

\* ------------------------------------------------------------------------
\* Single calls of the pure functions, inputs drawn from bounded sets

GateTimes == {0, 1, 1799, 1800, 1801, 3599, 3600, 3601, 7200}
GateIntervals == {Hours(0, 1), Hours(1, 2), Hours(1, 1), Hours(2, 1)}

InitGate ==
    /\ InitRunWith(FALSE, Hours(1, 1), None, 0)
    /\ \E last \in {None} \cup GateTimes, now \in GateTimes, interval \in GateIntervals :
          call = [fn |-> "should_query_now", last_queried_at |-> last,
                  interval_hours |-> interval, now |-> now,
                  done |-> FALSE, ret |-> FALSE]

ApplyGate ==
    /\ call.fn = "should_query_now"
    /\ ~call.done
    /\ call' = [call EXCEPT !.done = TRUE,
                            !.ret = should_query_now(call.last_queried_at,
                                                     call.interval_hours, call.now)]
    /\ UNCHANGED runVars

SpecGate == InitGate /\ [][ApplyGate]_vars

InitParse ==
    /\ InitRunWith(FALSE, Hours(1, 1), None, 0)
    /\ \E resp \in AllResponses :
          call = [fn |-> "query_distance_matrix", resp |-> resp,
                  done |-> FALSE, ret |-> NoResult]

ApplyParse ==
    /\ call.fn = "query_distance_matrix"
    /\ ~call.done
    /\ call' = [call EXCEPT !.done = TRUE, !.ret = query_distance_matrix(call.resp)]
    /\ UNCHANGED runVars

SpecParse == InitParse /\ [][ApplyParse]_vars

\* ------------------------------------------------------------------------
\* Properties

\* The hours elapsed at the call are at least (less than) the interval:
\* seconds / 3600 compared with num / den.
ElapsedAtLeast(now, last, interval) ==
    ~((now - last) * interval.den < interval.num * SecondsPerHour)
ElapsedLess(now, last, interval) ==
    (now - last) * interval.den < interval.num * SecondsPerHour

\* C1: should_query_now returns true exactly when last_queried_at is unset or
\* the elapsed hours are at least interval_hours; elapsed equal to the
\* interval gives true, anything smaller gives false.
C1_GateDueIffElapsed ==
    (call.fn = "should_query_now" /\ call.done) =>
        /\ call.last_queried_at = None => call.ret
        /\ (call.last_queried_at # None
              /\ ElapsedLess(call.now, call.last_queried_at, call.interval_hours))
           => ~call.ret
        /\ (call.last_queried_at # None
              /\ (call.now - call.last_queried_at) * call.interval_hours.den
                    = call.interval_hours.num * SecondsPerHour)
           => call.ret
        /\ (call.last_queried_at # None
              /\ ElapsedAtLeast(call.now, call.last_queried_at, call.interval_hours))
           => call.ret

\* The boundary: exactly one hour elapsed, interval one hour, the gate is open.
C1_Witness ==
    /\ call.fn = "should_query_now"
    /\ call.done
    /\ call.last_queried_at = 1
    /\ call.now = 3601
    /\ call.interval_hours = Hours(1, 1)
    /\ call.ret

Present(v) == v # None
NonZero(v) == v # None /\ v # 0

ParsedOk ==
    /\ call.fn = "query_distance_matrix"
    /\ call.done
    /\ call.resp.transport = "ok"
    /\ call.resp.status = "OK"
    /\ call.resp.element_status = "OK"

\* C8 as stated: with both statuses OK and duration and distance present the
\* result carries duration, distance and duration_in_traffic when present
\* (duration otherwise); with duration or distance missing there is no result.
C8_AsStated ==
    ParsedOk =>
        IF Present(call.resp.duration) /\ Present(call.resp.distance)
        THEN call.ret = Result(call.resp.distance, call.resp.duration,
                               IF Present(call.resp.duration_in_traffic)
                               THEN call.resp.duration_in_traffic
                               ELSE call.resp.duration)
        ELSE call.ret = NoResult

\* C8 amended: with both statuses OK and duration and distance present and
\* not zero the result carries duration, distance and duration_in_traffic
\* when that is present and not zero (duration otherwise); with duration or
\* distance missing or zero there is no result.
C8_ResultWhenNonZero ==
    ParsedOk =>
        IF NonZero(call.resp.duration) /\ NonZero(call.resp.distance)
        THEN call.ret = Result(call.resp.distance, call.resp.duration,
                               IF NonZero(call.resp.duration_in_traffic)
                               THEN call.resp.duration_in_traffic
                               ELSE call.resp.duration)
        ELSE call.ret = NoResult

\* duration 1, duration_in_traffic 2: the current duration is 2, not 1.
C8_Witness ==
    /\ ParsedOk
    /\ call.resp.duration = 1
    /\ call.resp.duration_in_traffic = 2
    /\ call.resp.distance = 2
    /\ call.ret # NoResult
    /\ call.ret.current_duration = 2
    /\ call.ret.freeflow_duration = 1

\* ---- properties of the invocations (specification Spec)

SegmentIds == DOMAIN db.road_segments

\* The invocation found an active region whose gate was due, computed from
\* the rows and the clock it started from.
DueAtStart ==
    /\ hist.db_at_start.config.is_active
    /\ \/ hist.db_at_start.config.last_queried_at = None
       \/ ElapsedAtLeast(hist.start_now, hist.db_at_start.config.last_queried_at,
                         hist.db_at_start.config.interval_hours)

LogRowsOf(r) == {i \in DOMAIN db.query_log : db.query_log[i].run = r}
ObservationsOf(r) ==
    {i \in DOMAIN db.traffic_observations : db.traffic_observations[i].run = r}
ObservedSegments(r) == {db.traffic_observations[i].segment_id : i \in ObservationsOf(r)}
UpdatedSegments(r) == {s \in SegmentIds : db.road_segments[s].updated_by = r}
WithOutcome(o) == {s \in SegmentIds : hist.outcome[s] = o}

\* C2: a run that commits its collection inserts exactly one query_log row;
\* the row's elements_queried is the number of segments of the region and
\* successful_queries + failed_queries = elements_queried, whatever the
\* outcomes of the segments.
C2_OneLogRowCountsAll ==
    /\ hist.collected => Cardinality(LogRowsOf(run)) = 1
    /\ \A r \in 1..MaxRuns : Cardinality(LogRowsOf(r)) <= 1
    /\ \A i \in DOMAIN db.query_log :
          /\ db.query_log[i].elements_queried = Cardinality(SegmentIds)
          /\ db.query_log[i].successful_queries + db.query_log[i].failed_queries
                = db.query_log[i].elements_queried

\* Two segments, one with a result and one whose iteration raised, committed.
C2_Witness ==
    /\ hist.collected
    /\ WithOutcome("result") # {}
    /\ WithOutcome("raised") # {}
    /\ \E i \in LogRowsOf(run) :
          /\ db.query_log[i].elements_queried = 2
          /\ db.query_log[i].successful_queries = 1
          /\ db.query_log[i].failed_queries = 1

\* C3: in a committed run the segments with an observation row, the segments
\* whose segment_distance_api is updated and the segments whose query
\* returned a result are the same set; the number of observation rows and
\* of updates is successful_queries; a failed segment gets neither.
C3_RowsAndUpdatesAreTheResults ==
    hist.collected =>
        /\ ObservedSegments(run) = WithOutcome("result")
        /\ UpdatedSegments(run) = WithOutcome("result")
        /\ \A i \in LogRowsOf(run) :
              /\ Cardinality(ObservationsOf(run)) = db.query_log[i].successful_queries
              /\ Cardinality(UpdatedSegments(run)) = db.query_log[i].successful_queries
        /\ \A s \in WithOutcome("no_result") \cup WithOutcome("raised") :
              /\ s \notin ObservedSegments(run)
              /\ db.road_segments[s].updated_by # run

\* Segment 1 without result, segment 2 with one: one row, one update, for 2.
C3_Witness ==
    /\ hist.collected
    /\ WithOutcome("no_result") = {1}
    /\ ObservedSegments(run) = {2}
    /\ UpdatedSegments(run) = {2}
    /\ db.road_segments[2].segment_distance_api = 1

\* C4: a failure of a segment's API query never ends the loop: the segment
\* is counted as failed and the next one is taken, so when the loop is over
\* every segment has been handled, each was queried at most once, and each
\* whose iteration got as far as the request was queried exactly once.
C4_EverySegmentQueriedOnce ==
    /\ \A s \in SegmentIds : hist.api_calls[s] <= 1
    /\ \A s \in WithOutcome("result") \cup WithOutcome("no_result") : hist.api_calls[s] = 1
    /\ pc = "loop" =>
          /\ idx < Len(segments)
          /\ \A s \in SegmentIds : (hist.outcome[s] # "pending") <=> (s <= idx)
    /\ pc \in (Running \ {"loop"}) => WithOutcome("pending") = {}
    /\ pc \in Running =>
          /\ failed = Cardinality(WithOutcome("no_result") \cup WithOutcome("raised"))
          /\ successful = Cardinality(WithOutcome("result"))

\* The first segment's query failed and the second was still queried.
C4_Witness ==
    /\ pc = "upd"
    /\ Len(segments) = 2
    /\ hist.outcome[1] = "no_result"
    /\ hist.outcome[2] = "result"
    /\ hist.api_calls[1] = 1
    /\ hist.api_calls[2] = 1
    /\ failed = 1

\* C5: an invocation that finds no active region, or whose gate is not due,
\* sends no request, writes nothing (no observation, no segment update, no
\* query_log row, last_queried_at unchanged) and returns normally.
C5_NoCollectionNoEffect ==
    (run >= 1 /\ ~DueAtStart) =>
        /\ pc = "returned"
        /\ exc = ""
        /\ db = hist.db_at_start
        /\ txn = EmptyTxn
        /\ ~hist.collected
        /\ \A s \in SegmentIds : hist.api_calls[s] = 0

\* The first invocation finds the region queried half an hour ago, interval
\* one hour, and skips.
C5_Witness ==
    /\ run = 1
    /\ hist.path = "skipped"
    /\ hist.db_at_start.config.last_queried_at = 0
    /\ hist.start_now = TickSeconds
    /\ hist.db_at_start.config.interval_hours = Hours(1, 1)
    /\ pc = "returned"

\* C6 as stated: a due run in which no database call raises returns
\* normally, for every number of segments (zero included).
C6_AsStated ==
    (run >= 1 /\ DueAtStart /\ pc \in {"returned", "raised"} /\ exc \notin DbCalls)
        => pc = "returned"

\* C7: if one of the three collection writes raises a database error, none
\* of them is committed, run() raises, and last_queried_at is unchanged.
C7_WritesAllOrNothing ==
    /\ exc \in {"upd", "ins", "log"} =>
          /\ pc = "raised"
          /\ db = hist.db_at_start
          /\ txn = EmptyTxn
    /\ (pc \in {"upd", "ins", "log", "commit1"} /\ ~hist.collected) => db = hist.db_at_start

\* The INSERT INTO query_log raised after an update and an observation were
\* pending.
C7_Witness ==
    /\ pc = "raised"
    /\ exc = "log"
    /\ WithOutcome("result") # {}
    /\ db = hist.db_at_start

\* C9: after a due run without database error last_queried_at and
\* updated_at hold the time of the UPDATE, which is not before the run's
\* observation timestamp, and are committed; a following invocation that
\* starts less than interval_hours after that time is skipped.
C9_LastQueriedAdvanced ==
    /\ (run >= 1 /\ hist.path = "due" /\ exc \notin DbCalls
          /\ pc \in {"report", "returned", "raised"}) =>
          /\ db.config.queried_by = run
          /\ db.config.last_queried_at = hist.update_now
          /\ db.config.updated_at = hist.update_now
          /\ hist.update_now >= timestamp
          /\ hist.update_now <= clock
          /\ txn = EmptyTxn
    /\ (run >= 1 /\ hist.db_at_start.config.queried_by # 0
          /\ ElapsedLess(hist.start_now, hist.db_at_start.config.last_queried_at,
                         hist.db_at_start.config.interval_hours)) =>
          /\ hist.path = "skipped"
          /\ pc = "returned"

\* The first run advanced last_queried_at after time had passed since its
\* timestamp, and the second, started less than the interval later, skipped.
C9_Witness ==
    /\ run = 2
    /\ hist.path = "skipped"
    /\ hist.db_at_start.config.queried_by = 1
    /\ hist.db_at_start.config.last_queried_at = TickSeconds
    /\ \E i \in DOMAIN db.traffic_observations :
          db.traffic_observations[i].observed_at = 0

\* C10: last_queried_at has been advanced by a run only if that run's
\* query_log row and observations are committed (an UPDATE of
\* collection_config is pending only then, too).  The converse is no
\* invariant: the two commits are separate, so a row can be committed with
\* last_queried_at not advanced, and the next run collects again.
C10_AdvancedOnlyAfterLog ==
    /\ db.config.queried_by # 0 =>
          \E i \in LogRowsOf(db.config.queried_by) :
              Cardinality(ObservationsOf(db.config.queried_by))
                  = db.query_log[i].successful_queries
    /\ txn.config # <<>> => (hist.collected /\ LogRowsOf(run) # {})

\* Run 1 committed its log row and did not advance last_queried_at; run 2
\* started at the same clock value (no time had passed since the beginning,
\* so less than the interval after that row), found that row, collected
\* again and advanced last_queried_at.
C10_Witness ==
    /\ run = 2
    /\ db.config.queried_by = 2
    /\ hist.db_at_start.config.queried_by = 0
    /\ hist.db_at_start.query_log # <<>>
    /\ hist.start_now = 0
    /\ LogRowsOf(1) # {}
    /\ LogRowsOf(2) # {}
====
